---- MODULE Spec2Model ----
(***************************************************************************)
(* Linear modules of flax.nn (src/flax/nn/linear.py): DenseGeneral, Dense,  *)
(* Conv and Embed, as calls on the parameter store of a layer scope.       *)
(*                                                                         *)
(* A tensor is a record [shape, dtype, data]; shape is a sequence of axis  *)
(* sizes, data maps every index tuple (0-based entries, one per axis) to   *)
(* an integer value.  Python axes and positions are 0-based: At(s, i) is   *)
(* s[i] of the source.                                                     *)
(***************************************************************************)
EXTENDS Integers, Sequences, FiniteSets, TLC

\* params: the parameter store of the current layer scope (name -> tensor)
\* scope_rng: the random-seed handle the host gave the scope
\* call:   the last call made in the scope (layer, arguments)
\* result: what that call returned or raised
VARIABLES params, scope_rng, call, result

vars == <<params, scope_rng, call, result>>

\* ------------------------------------------------------------------ bounds
MaxRank == 3
MaxDim == 2
MaxChannels == 4

\* ------------------------------------------------------------ python values
At(s, i) == s[i + 1]

Range(n) == 0 .. (n - 1)

\* s[a:b] for 0 <= a, b <= len(s)
Slice(s, a, b) == SubSeq(s, a + 1, b)

SeqSet(s) == {s[i] : i \in 1 .. Len(s)}

Distinct(s) == \A i, j \in 1 .. Len(s) : i # j => s[i] # s[j]

RECURSIVE Prod(_)
Prod(s) == IF s = <<>> THEN 1 ELSE s[1] * Prod(Tail(s))

RECURSIVE SeqMax(_)
SeqMax(s) ==
  IF Len(s) = 1 THEN s[1]
  ELSE LET m == SeqMax(Tail(s)) IN IF s[1] > m THEN s[1] ELSE m

\* The ascending sequence of the elements of a finite set of integers.
RECURSIVE Sorted(_)
Sorted(S) ==
  IF S = {} THEN <<>>
  ELSE LET m == CHOOSE x \in S : \A y \in S : x <= y
       IN <<m>> \o Sorted(S \ {m})

\* The sum of f[x] over the x of S.
RECURSIVE SumFun(_, _)
SumFun(f, S) ==
  IF S = {} THEN 0
  ELSE LET x == CHOOSE y \in S : TRUE IN f[x] + SumFun(f, S \ {x})

\* A scalar argument, a tuple argument and the argument None of a call.
Scalar(n) == [kind |-> "int", v |-> n]
Tuple(s) == [kind |-> "tuple", v |-> s]
None == [kind |-> "None"]

\* if not isinstance(x, Iterable): x = (x,) ; tuple(x)
AsTuple(x) == IF x.kind = "tuple" THEN x.v ELSE <<x.v>>

\* ------------------------------------------------------------------ tensors
RECURSIVE Indices(_)
Indices(shape) ==
  IF shape = <<>> THEN {<<>>}
  ELSE {<<i>> \o r : i \in Range(shape[1]), r \in Indices(Tail(shape))}

\* Row-major position of an index tuple, and its inverse.
RECURSIVE Flat(_, _)
Flat(idx, shape) ==
  IF idx = <<>> THEN 0
  ELSE LET n == Len(idx)
       IN Flat(SubSeq(idx, 1, n - 1), SubSeq(shape, 1, n - 1)) * shape[n] + idx[n]

RECURSIVE Unflat(_, _)
Unflat(p, shape) ==
  IF shape = <<>> THEN <<>>
  ELSE LET n == Len(shape)
       IN Unflat(p \div shape[n], SubSeq(shape, 1, n - 1)) \o <<p % shape[n]>>

Tensor(shape, dtype, data) == [shape |-> shape, dtype |-> dtype, data |-> data]

Ok(t) == [status |-> "ok", out |-> t]
Err(e) == [status |-> e]

\* jnp.asarray(x, dtype): the values of this model are exactly representable
\* in every dtype they are cast to; the cast changes the dtype.
AsArray(t, dtype) == [t EXCEPT !.dtype = dtype]

\* jnp.reshape (row-major)
Reshape(t, shape) ==
  Tensor(shape, t.dtype,
         [idx \in Indices(shape) |-> t.data[Unflat(Flat(idx, shape), t.shape)]])

\* jnp.concatenate(n copies of the 2-D or 1-D tensors ts[1..n], axis=0)
ConcatAxis0(ts) ==
  LET rest == Tail(ts[1].shape)
      rows == ts[1].shape[1]
      shape == <<rows * Len(ts)>> \o rest
  IN Tensor(shape, ts[1].dtype,
            [idx \in Indices(shape) |->
               ts[(idx[1] \div rows) + 1].data[<<(idx[1] % rows)>> \o Tail(idx)]])

\* jnp.expand_dims(a, axis): axis = axis % (ndim(a) + 1), then a reshape that
\* inserts a size-1 axis there.
ExpandDims(t, axis) ==
  LET ax == axis % (Len(t.shape) + 1)
      shape == Slice(t.shape, 0, ax) \o <<1>> \o Slice(t.shape, ax, Len(t.shape))
  IN Reshape(t, shape)

RECURSIVE ExpandAll(_, _)
ExpandAll(t, axes) ==
  IF axes = <<>> THEN t ELSE ExpandAll(ExpandDims(t, axes[1]), Tail(axes))

\* a + b of jax.numpy: numpy broadcasting (shapes aligned at the right, sizes
\* equal or 1), the dtypes promoted.
PadShape(s, n) == [i \in 1 .. n |-> IF i <= n - Len(s) THEN 1 ELSE s[i - (n - Len(s))]]

PromoteTypes(a, b) ==
  IF a = b THEN a
  ELSE IF "float64" \in {a, b} THEN "float64" ELSE "float32"

Add(a, b) ==
  LET n == IF Len(a.shape) > Len(b.shape) THEN Len(a.shape) ELSE Len(b.shape)
      sa == PadShape(a.shape, n)
      sb == PadShape(b.shape, n)
      pick(s, idx) ==
        LET k == n - Len(s)
        IN [i \in 1 .. Len(s) |-> IF s[i] = 1 THEN 0 ELSE idx[i + k]]
  IN IF \E i \in 1 .. n : sa[i] # sb[i] /\ sa[i] # 1 /\ sb[i] # 1
     THEN Err("jnp:IncompatibleShapes")
     ELSE LET shape == [i \in 1 .. n |-> IF sa[i] = 1 THEN sb[i] ELSE sa[i]]
          IN Ok(Tensor(shape, PromoteTypes(a.dtype, b.dtype),
                       [idx \in Indices(shape) |->
                          a.data[pick(a.shape, idx)] + b.data[pick(b.shape, idx)]]))

\* lax.dot_general(lhs, rhs, ((lc, rc), (lb, rb))): the output's axes are the
\* batch axes (in the order of lb), then the free axes of lhs, then the free axes
\* of rhs, each in ascending order; an element is the sum over the contracted
\* axes of the products.  Both operands must have the same dtype, and the
\* dimension numbers must name distinct, in-range axes of matching sizes.
FreeAxes(ndim, used) == Sorted(Range(ndim) \ used)

Position(s, x) == CHOOSE i \in 1 .. Len(s) : s[i] = x

DotGeneral(lhs, rhs, lc, rc, lb, rb) ==
  LET ln == Len(lhs.shape)
      rn == Len(rhs.shape)
      lfree == FreeAxes(ln, SeqSet(lc) \cup SeqSet(lb))
      rfree == FreeAxes(rn, SeqSet(rc) \cup SeqSet(rb))
      nb == Len(lb)
      nl == Len(lfree)
      lbs == SeqSet(lb)
      lcs == SeqSet(lc)
      rbs == SeqSet(rb)
      rcs == SeqSet(rc)
      cshape == [j \in 1 .. Len(lc) |-> At(lhs.shape, lc[j])]
      cs == Indices(cshape)
      shape == [i \in 1 .. nb |-> At(lhs.shape, lb[i])]
               \o [i \in 1 .. nl |-> At(lhs.shape, lfree[i])]
               \o [i \in 1 .. Len(rfree) |-> At(rhs.shape, rfree[i])]
      lidx(idx, c) ==
        [a \in 1 .. ln |->
          IF (a - 1) \in lbs THEN idx[Position(lb, a - 1)]
          ELSE IF (a - 1) \in lcs THEN c[Position(lc, a - 1)]
          ELSE idx[nb + Position(lfree, a - 1)]]
      ridx(idx, c) ==
        [a \in 1 .. rn |->
          IF (a - 1) \in rbs THEN idx[Position(rb, a - 1)]
          ELSE IF (a - 1) \in rcs THEN c[Position(rc, a - 1)]
          ELSE idx[nb + nl + Position(rfree, a - 1)]]
      wellformed ==
        /\ Len(lc) = Len(rc) /\ Len(lb) = Len(rb)
        /\ SeqSet(lc) \cup SeqSet(lb) \subseteq Range(ln)
        /\ SeqSet(rc) \cup SeqSet(rb) \subseteq Range(rn)
        /\ Distinct(lc \o lb) /\ Distinct(rc \o rb)
        /\ \A j \in 1 .. Len(lc) : At(lhs.shape, lc[j]) = At(rhs.shape, rc[j])
        /\ \A i \in 1 .. Len(lb) : At(lhs.shape, lb[i]) = At(rhs.shape, rb[i])
  IN IF lhs.dtype # rhs.dtype THEN Err("lax:TypeError")
     ELSE IF ~wellformed THEN Err("lax:ShapeError")
     ELSE Ok(Tensor(shape, lhs.dtype,
                    [idx \in Indices(shape) |->
                       SumFun([c \in cs |-> lhs.data[lidx(idx, c)] * rhs.data[ridx(idx, c)]],
                              cs)]))

\* ------------------------------------------------- initializers and the store
\* An initializer is a pure function of (rng, shape, dtype): "zeros" fills with
\* 0, "normal" draws every element from the key and the element's position.
Sample(key, p) == ((key + 1) * (p + 1)) + ((key * p) % 3)

Initializer(kind, rng, shape) ==
  Tensor(shape, "float32",
         [idx \in Indices(shape) |->
            IF kind = "zeros" THEN 0 ELSE Sample(rng, Flat(idx, shape))])

ParamNames == <<"kernel", "bias", "embedding">>

EmptyStore == [n \in {} |-> 0]

\* ------------------------------------------------------------- DenseGeneral
\* (faulty variant) a negative axis is counted from the last axis instead of from the rank
NormalizeAxes_offByOne(axes, ndim) ==
  [i \in 1 .. Len(axes) |-> IF axes[i] >= 0 THEN axes[i] ELSE ndim + axes[i] - 1]

\* _normalize_axes
NormalizeAxes(axes, ndim) ==
  [i \in 1 .. Len(axes) |-> IF axes[i] >= 0 THEN axes[i] ELSE ndim + axes[i]]

\* (faulty variant) only consecutiveness is checked, not the start at 0
BatchDimsRejected_anyStart(batch_dims) ==
  /\ batch_dims # <<>>
  /\ \E x \in SeqSet(batch_dims) : \E y \in x .. SeqMax(batch_dims) : y \notin SeqSet(batch_dims)

\* lines 72-76: the batch_dims the call rejects with ValueError
BatchDimsRejected(batch_dims) ==
  /\ batch_dims # <<>>
  /\ SeqSet(batch_dims) # Range(SeqMax(batch_dims) + 1)

KernelInitWrap(rng, shape, n_batch_dims, n_axis, n_features, kernel_init) ==
  LET n == Len(shape)
      size_batch_dims == Prod(Slice(shape, 0, n_batch_dims))
      flat_shape == <<Prod(Slice(shape, n_batch_dims, n_axis + n_batch_dims)),
                      Prod(Slice(shape, n - n_features, n))>>
      kernel == ConcatAxis0([i \in 1 .. size_batch_dims |->
                               Initializer(kernel_init, rng, flat_shape)])
  IN Reshape(kernel, shape)

BiasInitWrap(rng, shape, n_batch_dims, n_features, bias_init) ==
  LET n == Len(shape)
      size_batch_dims == Prod(Slice(shape, 0, n_batch_dims))
      flat_shape == <<Prod(Slice(shape, n - n_features, n))>>
      bias == ConcatAxis0([i \in 1 .. size_batch_dims |->
                             Initializer(bias_init, rng, flat_shape)])
  IN Reshape(bias, shape)

\* The initializer callables handed to Module.param: a plain initializer, or
\* one of DenseGeneral's two wrappers closed over the layer's axis counts.
PlainInit(kind) == [wrap |-> "none", init |-> kind]
KernelInit(n_batch_dims, n_axis, n_features, kind) ==
  [wrap |-> "kernel", n_batch_dims |-> n_batch_dims, n_axis |-> n_axis,
   n_features |-> n_features, init |-> kind]
BiasInit(n_batch_dims, n_features, kind) ==
  [wrap |-> "bias", n_batch_dims |-> n_batch_dims, n_features |-> n_features,
   init |-> kind]

\* initializer(rng, shape)
CallInit(init, rng, shape) ==
  CASE init.wrap = "kernel" ->
         KernelInitWrap(rng, shape, init.n_batch_dims, init.n_axis, init.n_features,
                        init.init)
    [] init.wrap = "bias" ->
         BiasInitWrap(rng, shape, init.n_batch_dims, init.n_features, init.init)
    [] OTHER -> Initializer(init.init, rng, shape)

\* Module.param(name, shape, initializer): the parameter of that name, created
\* on first use from the initializer and the scope's rng folded with the name.
Param(store, key, name, shape, init) ==
  IF name \in DOMAIN store
  THEN [store |-> store, value |-> store[name]]
  ELSE LET v == CallInit(init, 3 * key + Position(ParamNames, name), shape)
       IN [store |-> [n \in DOMAIN store \cup {name} |->
                        IF n = name THEN v ELSE store[n]],
           value |-> v]

\* lines 102-117: the bias parameter, reshaped for broadcast and added
DenseGeneralBias(store, key, a, out, features, axis, batch_dims, batch_shape) ==
  LET n_batch_dims == Len(batch_dims)
      n_features == Len(features)
      p == Param(store, key, "bias", batch_shape \o features,
                 BiasInit(n_batch_dims, n_features, a.bias_init))
      expand_dims == Sorted((Range(Len(a.inputs.shape)) \ SeqSet(axis)) \ SeqSet(batch_dims))
      bias == ExpandAll(p.value, expand_dims)
  IN [store |-> p.store, result |-> Add(out, bias)]

\* DenseGeneral.apply: [store, result] after the call
DenseGeneralApply(store, key, a) ==
  LET features == AsTuple(a.features)
      axis0 == AsTuple(a.axis)
      batch_dims0 == AsTuple(a.batch_dims)
      ndim == Len(a.inputs.shape)
      n_batch_dims == Len(batch_dims0)
      axis == NormalizeAxes(axis0, ndim)
      batch_dims == NormalizeAxes(batch_dims0, ndim)
      n_axis == Len(axis)
      n_features == Len(features)
      batch_shape == [i \in 1 .. n_batch_dims |-> At(a.inputs.shape, batch_dims[i])]
      kernel_shape == [i \in 1 .. n_axis |-> At(a.inputs.shape, axis[i])] \o features
      k == Param(store, key, "kernel", batch_shape \o kernel_shape,
                 KernelInit(n_batch_dims, n_axis, n_features, a.kernel_init))
      batch_ind == [i \in 1 .. n_batch_dims |-> i - 1]
      contract_ind == [i \in 1 .. n_axis |-> n_batch_dims + i - 1]
      out == DotGeneral(a.inputs, k.value, axis, contract_ind, batch_dims, batch_ind)
  IN IF BatchDimsRejected(batch_dims0)
     THEN [store |-> store, result |-> Err("ValueError:batch_dims")]
     ELSE IF ~(SeqSet(axis) \cup SeqSet(batch_dims) \subseteq Range(ndim))
     THEN [store |-> store, result |-> Err("IndexError")]
     ELSE IF out.status # "ok" THEN [store |-> k.store, result |-> out]
     ELSE IF a.bias
     THEN DenseGeneralBias(k.store, key, a, out.out, features, axis, batch_dims, batch_shape)
     ELSE [store |-> k.store, result |-> out]

\* -------------------------------------------------------------------- Dense
DenseApply(store, key, a) ==
  LET inputs == AsArray(a.inputs, "float32")
      ndim == Len(inputs.shape)
      k == Param(store, key, "kernel", <<At(inputs.shape, ndim - 1), a.features>>,
                 PlainInit(a.kernel_init))
      kernel == AsArray(k.value, "float32")
      y == DotGeneral(inputs, kernel, <<ndim - 1>>, <<0>>, <<>>, <<>>)
      b == Param(k.store, key, "bias", <<a.features>>,
                 PlainInit(a.bias_init))
  IN IF y.status # "ok" THEN [store |-> k.store, result |-> y]
     ELSE IF a.bias THEN [store |-> b.store, result |-> Add(y.out, b.value)]
     ELSE [store |-> k.store, result |-> y]


\* --------------------------------------------------------------------- Conv
\* (faulty variant) the kernel's two feature axes are exchanged
ConvDimensionNumbers_swapped(input_shape) ==
  LET ndim == Len(input_shape)
      lhs_spec == <<0, ndim - 1>> \o [i \in 1 .. ndim - 2 |-> i]
      rhs_spec == <<ndim - 2, ndim - 1>> \o [i \in 1 .. ndim - 2 |-> i - 1]
  IN [lhs_spec |-> lhs_spec, rhs_spec |-> rhs_spec, out_spec |-> lhs_spec]

\* _conv_dimension_numbers(input_shape): lax.ConvDimensionNumbers, whose
\* lhs_spec and out_spec are (batch axis, feature axis, spatial axes...) and whose
\* rhs_spec is (output-feature axis, input-feature axis, spatial axes...).
ConvDimensionNumbers(input_shape) ==
  LET ndim == Len(input_shape)
      lhs_spec == <<0, ndim - 1>> \o [i \in 1 .. ndim - 2 |-> i]
      rhs_spec == <<ndim - 1, ndim - 2>> \o [i \in 1 .. ndim - 2 |-> i - 1]
  IN [lhs_spec |-> lhs_spec, rhs_spec |-> rhs_spec, out_spec |-> lhs_spec]

\* lax.conv_general_dilated: the sliding-window computation is the numerical
\* framework's; the result is kept as the application of the primitive to the
\* operands this layer hands it.  The primitive rejects a kernel whose rank
\* differs from the input's, window strides that are not one per spatial axis,
\* and a kernel output-feature size the group count does not divide.
ConvGeneralDilated(lhs, rhs, window_strides, padding, dimension_numbers, feature_group_count) ==
  LET ndim == Len(lhs.shape)
  IN IF \/ ndim < 2
        \/ Len(rhs.shape) # ndim
        \/ Len(window_strides) # ndim - 2
        \/ At(rhs.shape, dimension_numbers.rhs_spec[1]) % feature_group_count # 0
     THEN Err("lax:ShapeError")
     ELSE Ok([op |-> "conv_general_dilated", lhs |-> lhs, rhs |-> rhs,
              window_strides |-> window_strides, padding |-> padding,
              dimension_numbers |-> dimension_numbers,
              feature_group_count |-> feature_group_count])

\* (faulty variant) the operands of the divisibility test are exchanged
GroupsDivide_swapped(in_features, feature_group_count) ==
  feature_group_count % in_features = 0

\* line 218: in_features % feature_group_count == 0
GroupsDivide(in_features, feature_group_count) ==
  in_features % feature_group_count = 0

\* Conv.apply: [store, result] after the call
ConvApply(store, key, a) ==
  LET inputs == AsArray(a.inputs, "float32")
      ndim == Len(inputs.shape)
      strides == IF a.strides = None THEN [i \in 1 .. ndim - 2 |-> 1] ELSE a.strides.v
      in_features == At(inputs.shape, ndim - 1)
      kernel_shape == a.kernel_size
                        \o <<in_features \div a.feature_group_count, a.features>>
      k == Param(store, key, "kernel", kernel_shape,
                 PlainInit(a.kernel_init))
      kernel == AsArray(k.value, "float32")
      dimension_numbers == ConvDimensionNumbers(inputs.shape)
      y == ConvGeneralDilated(inputs, kernel, strides, "SAME", dimension_numbers,
                              a.feature_group_count)
      b == Param(k.store, key, "bias", <<a.features>>,
                 PlainInit(a.bias_init))
  IN IF ~GroupsDivide(in_features, a.feature_group_count)
     THEN [store |-> store, result |-> Err("AssertionError")]
     ELSE IF y.status # "ok" THEN [store |-> k.store, result |-> y]
     ELSE IF a.bias
     THEN [store |-> b.store,
           result |-> Ok([op |-> "add", x |-> y.out, y |-> AsArray(b.value, "float32")])]
     ELSE [store |-> k.store, result |-> y]

\* -------------------------------------------------------------------- Embed
\* lax.gather(operand, start_indices, dimension_numbers, slice_sizes): the last
\* axis of start_indices holds the index vector, its other axes are the batch
\* axes of the output; offset_dims are the output axes that index into the
\* slice, whose collapsed axes are dropped; a start index is clamped so that the
\* slice lies inside the operand.
Clamp(x, lo, hi) == IF x < lo THEN lo ELSE IF x > hi THEN hi ELSE x

Gather(operand, start_indices, dn, slice_sizes) ==
  LET irank == Len(start_indices.shape)
      batch_shape == Slice(start_indices.shape, 0, irank - 1)
      orank == (irank - 1) + Len(dn.offset_dims)
      kept == FreeAxes(Len(operand.shape), SeqSet(dn.collapsed_slice_dims))
      offs == SeqSet(dn.offset_dims)
      batch_axes == FreeAxes(orank, offs)
      shape == [d \in 1 .. orank |->
                  IF (d - 1) \in offs
                  THEN At(slice_sizes, kept[Position(dn.offset_dims, d - 1)])
                  ELSE batch_shape[Position(batch_axes, d - 1)]]
      G(idx) == [i \in 1 .. irank - 1 |-> At(idx, batch_axes[i])]
      start(idx, d) ==
        IF d \in SeqSet(dn.start_index_map)
        THEN Clamp(start_indices.data[G(idx) \o <<Position(dn.start_index_map, d) - 1>>],
                   0, At(operand.shape, d) - At(slice_sizes, d))
        ELSE 0
      offset(idx, d) ==
        IF d \in SeqSet(dn.collapsed_slice_dims) THEN 0
        ELSE At(idx, dn.offset_dims[Position(kept, d)])
      wellformed ==
        /\ irank >= 1
        /\ start_indices.shape[irank] = Len(dn.start_index_map)
        /\ Len(slice_sizes) = Len(operand.shape)
        /\ Len(dn.offset_dims) = Len(kept)
        /\ offs \subseteq Range(orank)
        /\ \A d \in 1 .. Len(slice_sizes) : slice_sizes[d] <= operand.shape[d]
  IN IF ~wellformed THEN Err("lax:ShapeError")
     ELSE Ok(Tensor(shape, operand.dtype,
                    [idx \in Indices(shape) |->
                       operand.data[[d \in 1 .. Len(operand.shape) |->
                                       start(idx, d - 1) + offset(idx, d - 1)]]]))

\* (faulty variant) the unsigned kinds are left out
IntegerDTypes_signed == {"int32", "int64"}

\* line 267: [jnp.int32, jnp.int64, jnp.uint32, jnp.uint64]
IntegerDTypes == {"int32", "int64", "uint32", "uint64"}

\* (faulty variant) the slice axis is put first instead of last
EmbedGatherDims_first(ndim) ==
  [offset_dims |-> <<0>>, collapsed_slice_dims |-> <<0>>, start_index_map |-> <<0>>]

\* lines 271-274
EmbedGatherDims(ndim) ==
  [offset_dims |-> <<ndim - 1>>, collapsed_slice_dims |-> <<0>>, start_index_map |-> <<0>>]

\* (faulty variant) the table is registered before the dtype is checked
EmbedApply_registerFirst(store, key, a) ==
  LET e == Param(store, key, "embedding", <<a.num_embeddings, a.features>>,
                 PlainInit(a.embedding_init))
      dims == EmbedGatherDims(Len(a.inputs.shape))
  IN IF a.inputs.dtype \notin IntegerDTypes
     THEN [store |-> e.store, result |-> Err("ValueError:dtype")]
     ELSE [store |-> e.store,
           result |-> Gather(e.value, a.inputs, dims, <<1, a.features>>)]

\* Embed.apply: [store, result] after the call
EmbedApply(store, key, a) ==
  LET e == Param(store, key, "embedding", <<a.num_embeddings, a.features>>,
                 PlainInit(a.embedding_init))
      dims == EmbedGatherDims(Len(a.inputs.shape))
  IN IF a.inputs.dtype \notin IntegerDTypes
     THEN [store |-> store, result |-> Err("ValueError:dtype")]
     ELSE [store |-> e.store,
           result |-> Gather(e.value, a.inputs, dims, <<1, a.features>>)]

\* ------------------------------------------------------------------- inputs
\* Axis sizes: 1 (the size broadcasting treats specially) and MaxDim.
Sizes == {1, MaxDim}

RECURSIVE ShapesOfRank(_)
ShapesOfRank(n) ==
  IF n = 0 THEN {<<>>}
  ELSE {<<d>> \o s : d \in Sizes, s \in ShapesOfRank(n - 1)}

Shapes == UNION {ShapesOfRank(n) : n \in 1 .. MaxRank}

RngKeys == {0, 1}

Initializers == {"zeros", "normal"}

\* An input tensor: every element is its row-major position plus one.
Input(shape, dtype) ==
  Tensor(shape, dtype, [idx \in Indices(shape) |-> Flat(idx, shape) + 1])

\* An index tensor: the elements run through 0 .. MaxDim from `first` on.
IndexInput(shape, dtype, first) ==
  Tensor(shape, dtype,
         [idx \in Indices(shape) |-> (Flat(idx, shape) + first) % (MaxDim + 1)])

DenseDTypes == {"float32", "int32"}

EmbedDTypes == {"int32", "int64", "uint32", "uint64", "float32", "int16"}

\* The inputs of a given shape that a layer is called on.
DenseInputsOf(shape) == {Input(shape, dtype) : dtype \in DenseDTypes}

EmbedInputsOf(shape) ==
  {IndexInput(shape, dtype, first) : dtype \in EmbedDTypes, first \in 0 .. 1}

ConvInputsOf(shape) == {Input(shape, "float32")}

\* Conv input shapes: (batch, spatial..., channels) with 1 .. MaxChannels channels
ConvShapes ==
  {s \o <<c>> : s \in UNION {ShapesOfRank(n) : n \in 0 .. MaxRank - 1},
                c \in 1 .. MaxChannels}

\* Sequences of distinct axes of a rank-n input, of length 1 or 2.
AxisTuples(n) ==
  {<<x>> : x \in Range(n)}
    \cup {s \in {<<x, y>> : x \in Range(n), y \in Range(n)} : s[1] # s[2]}

AxisArgs(n) == {Scalar(0 - 1)} \cup {Tuple(s) : s \in AxisTuples(n)}

BatchDimsArgs ==
  {Tuple(<<>>), Scalar(0), Tuple(<<0 - 1>>)}
    \cup {Tuple(<<x>>) : x \in 0 .. 1}
    \cup {Tuple(<<x, y>>) : x \in 0 .. 1, y \in 0 .. MaxRank - 1}

FeaturesArgs == {Scalar(f) : f \in Sizes} \cup {Tuple(<<1, MaxDim>>)}

\* bias=False, or bias=True with one of the bias initializers
BiasArgs == {[bias |-> FALSE, bias_init |-> "zeros"]}
              \cup {[bias |-> TRUE, bias_init |-> i] : i \in Initializers}

\* kernel_size for n spatial axes: one extent per axis, or one too many; the
\* extents differ
KernelSizes(n) ==
  {[i \in 1 .. k |-> e + i - 1] : k \in {n, n + 1} \cap Nat, e \in Sizes}

\* ------------------------------------------------------------------ actions
Idle == [layer |-> "none"]

Init ==
  /\ params = EmptyStore
  /\ scope_rng \in RngKeys
  /\ call = Idle
  /\ result = [status |-> "none"]

\* The host creates a new layer scope, with its random-seed handle.
NewScope ==
  /\ call # Idle
  /\ params' = EmptyStore
  /\ scope_rng' \in RngKeys
  /\ call' = Idle
  /\ result' = [status |-> "none"]

\* A call: the layer's apply on the scope's store
Call(layer, a, r) ==
  /\ params' = r.store
  /\ call' = [layer |-> layer, args |-> a]
  /\ result' = r.result
  /\ UNCHANGED scope_rng

\* In a scope that holds parameters, the layer that created them is called
\* again with the same configuration.
Again(layer) == call.layer = layer /\ params # EmptyStore

\* DenseGeneral.apply: the first call in a new scope, or a call again on another
\* input of the same shape
CallDenseGeneral ==
  \/ /\ call = Idle
     /\ \E shape \in Shapes, features \in FeaturesArgs, batch_dims \in BatchDimsArgs,
           b \in BiasArgs :
          \E x \in DenseInputsOf(shape), axis \in AxisArgs(Len(shape)) :
            LET a == [inputs |-> x, features |-> features, axis |-> axis,
                      batch_dims |-> batch_dims, bias |-> b.bias,
                      kernel_init |-> "normal", bias_init |-> b.bias_init]
            IN Call("DenseGeneral", a, DenseGeneralApply(params, scope_rng, a))
  \/ /\ Again("DenseGeneral")
     /\ \E x \in DenseInputsOf(call.args.inputs.shape) :
          LET a == [call.args EXCEPT !.inputs = x]
          IN Call("DenseGeneral", a, DenseGeneralApply(params, scope_rng, a))

\* Dense.apply
CallDense ==
  \/ /\ call = Idle
     /\ \E shape \in Shapes, features \in Sizes, b \in BiasArgs :
          \E x \in DenseInputsOf(shape) :
            LET a == [inputs |-> x, features |-> features, bias |-> b.bias,
                      kernel_init |-> "normal", bias_init |-> b.bias_init]
            IN Call("Dense", a, DenseApply(params, scope_rng, a))
  \/ /\ Again("Dense")
     /\ \E x \in DenseInputsOf(call.args.inputs.shape) :
          LET a == [call.args EXCEPT !.inputs = x]
          IN Call("Dense", a, DenseApply(params, scope_rng, a))

\* Conv.apply
CallConv ==
  \/ /\ call = Idle
     /\ \E shape \in ConvShapes, features \in Sizes, g \in 1 .. MaxChannels,
           bias \in BOOLEAN :
          \E x \in ConvInputsOf(shape), kernel_size \in KernelSizes(Len(shape) - 2),
             strides \in {None, Tuple([i \in 1 .. Len(shape) - 2 |-> 2])} :
            LET a == [inputs |-> x, features |-> features, kernel_size |-> kernel_size,
                      strides |-> strides, feature_group_count |-> g, bias |-> bias,
                      kernel_init |-> "normal", bias_init |-> "zeros"]
            IN Call("Conv", a, ConvApply(params, scope_rng, a))
  \/ /\ Again("Conv")
     /\ \E x \in ConvInputsOf(call.args.inputs.shape) :
          LET a == [call.args EXCEPT !.inputs = x]
          IN Call("Conv", a, ConvApply(params, scope_rng, a))

\* Embed.apply
CallEmbed ==
  \/ /\ call = Idle
     /\ \E shape \in Shapes, n \in 1 .. MaxDim + 1, f \in Sizes :
          \E x \in EmbedInputsOf(shape) :
            LET a == [inputs |-> x, num_embeddings |-> n, features |-> f,
                      embedding_init |-> "normal"]
            IN Call("Embed", a, EmbedApply(params, scope_rng, a))
  \/ /\ Again("Embed")
     /\ \E x \in EmbedInputsOf(call.args.inputs.shape) :
          LET a == [call.args EXCEPT !.inputs = x]
          IN Call("Embed", a, EmbedApply(params, scope_rng, a))

Next == NewScope \/ CallDenseGeneral \/ CallDense \/ CallConv \/ CallEmbed

Spec == Init /\ [][Next]_vars

\* The layers one at a time
NextDense == NewScope \/ CallDenseGeneral \/ CallDense

SpecDense == Init /\ [][NextDense]_vars

NextConv == NewScope \/ CallConv

SpecConv == Init /\ [][NextConv]_vars

NextEmbed == NewScope \/ CallEmbed

SpecEmbed == Init /\ [][NextEmbed]_vars

\* ------------------------------------------------------------------- claims
Args == call.args

\* The batch, contracted and feature tuples a DenseGeneral call works with.
BatchDims == NormalizeAxes(AsTuple(Args.batch_dims), Len(Args.inputs.shape))

Axis == NormalizeAxes(AsTuple(Args.axis), Len(Args.inputs.shape))

Features == AsTuple(Args.features)

\* The indices of s are exactly 0 .. max(s): none is negative and every index
\* below one of them is among them.
LeadingSet(s) == \A x \in SeqSet(s) : x >= 0 /\ \A y \in 0 .. x : y \in SeqSet(s)

\* C1: DenseGeneral raises the batch_dims ValueError exactly when batch_dims is
\* non-empty and its set of indices is not {0, ..., max(batch_dims)}.
C1_BatchDimsValidation ==
  call.layer = "DenseGeneral" =>
    LET bd == AsTuple(Args.batch_dims)
    IN (result.status = "ValueError:batch_dims") <=> (bd # <<>> /\ ~LeadingSet(bd))

C1_Witness ==
  /\ call.layer = "DenseGeneral"
  /\ Args.batch_dims = Tuple(<<0, 2>>)
  /\ result.status = "ValueError:batch_dims"

\* What Dense returns for the inputs, feature count and bias flag of the
\* DenseGeneral call, on the parameters the scope holds.
DenseOnSameParams ==
  DenseApply(params, scope_rng,
             [inputs |-> Args.inputs, features |-> Args.features.v, bias |-> Args.bias,
              kernel_init |-> Args.kernel_init, bias_init |-> Args.bias_init]).result

DenseLikeCall ==
  /\ call.layer = "DenseGeneral"
  /\ Args.axis = Scalar(0 - 1)
  /\ Args.batch_dims = Tuple(<<>>)
  /\ Args.features.kind = "int"

\* C2 (as stated): for every input tensor, DenseGeneral with axis=-1 and
\* batch_dims=() returns what Dense returns on the same kernel and bias.
C2_SameAsDense_AnyInput == DenseLikeCall => result = DenseOnSameParams

\* C2 (amended): for every input tensor of the parameters' dtype (float32),
\* DenseGeneral with axis=-1 and batch_dims=() returns a tensor, and it is the
\* tensor Dense returns on the same kernel and bias: same shape, same elements.
C2_SameAsDense ==
  (DenseLikeCall /\ Args.inputs.dtype = "float32") =>
    /\ result.status = "ok"
    /\ result = DenseOnSameParams

C2_Witness ==
  /\ DenseLikeCall
  /\ Args.inputs.dtype = "float32"
  /\ Len(Args.inputs.shape) = MaxRank
  /\ Args.bias /\ Args.bias_init = "normal"
  /\ result.status = "ok"
  /\ Args.features.v = MaxDim
  /\ \E i \in DOMAIN result.out.data : result.out.data[i] # params["bias"].data[<<0>>]

\* The slice of a tensor at index b of its axis 0.
SliceAxis0(t, b) == [idx \in Indices(Tail(t.shape)) |-> t.data[<<b>> \o idx]]

\* C3: with batch_dims=(0,) and batch size 2 the two kernel slices along axis 0
\* are independent draws of the stochastic initializer, hence not identical.
C3_IndependentSlices ==
  (/\ call.layer = "DenseGeneral"
   /\ AsTuple(Args.batch_dims) = <<0>>
   /\ Args.inputs.shape[1] = 2
   /\ Args.kernel_init = "normal"
   /\ result.status = "ok")
    => SliceAxis0(params["kernel"], 0) # SliceAxis0(params["kernel"], 1)

\* C4: for integer input with a trailing axis of size 1 and values in
\* [0, num_embeddings), Embed returns a tensor of shape (batch dimensions...,
\* features) whose row at batch position b is the table row at input[b, 0].
C4_EmbedLookup ==
  LET x == Args.inputs
      batch == SubSeq(x.shape, 1, Len(x.shape) - 1)
  IN (/\ call.layer = "Embed"
      /\ x.dtype \in {"int32", "int64", "uint32", "uint64"}
      /\ x.shape[Len(x.shape)] = 1
      /\ \A i \in DOMAIN x.data : x.data[i] \in 0 .. Args.num_embeddings - 1)
       => /\ result.status = "ok"
          /\ result.out.shape = batch \o <<Args.features>>
          /\ \A b \in Indices(batch) : \A f \in 0 .. Args.features - 1 :
               result.out.data[b \o <<f>>]
                 = params["embedding"].data[<<x.data[b \o <<0>>], f>>]

C4_Witness ==
  /\ call.layer = "Embed"
  /\ Args.inputs.dtype = "uint32"
  /\ Args.inputs.shape = <<2, 1>>
  /\ Args.inputs.data[<<0, 0>>] = 1 /\ Args.inputs.data[<<1, 0>>] = 2
  /\ Args.num_embeddings = 3 /\ Args.features = 2
  /\ result.status = "ok"
  /\ result.out.shape = <<2, 2>>

\* C5: Conv raises the assertion error exactly when the size of the input's last
\* axis is not a multiple of feature_group_count.
C5_GroupDivisibility ==
  call.layer = "Conv" =>
    LET channels == Args.inputs.shape[Len(Args.inputs.shape)]
    IN (result.status = "AssertionError")
         <=> ~(\E q \in 0 .. channels : q * Args.feature_group_count = channels)

C5_Witness ==
  /\ call.layer = "Conv"
  /\ Args.inputs.shape[Len(Args.inputs.shape)] = 3
  /\ Args.feature_group_count = 2
  /\ result.status = "AssertionError"

\* C6: Embed raises the dtype error exactly when the input dtype is none of
\* int32, int64, uint32, uint64.
C6_EmbedDType ==
  call.layer = "Embed" =>
    ((result.status = "ValueError:dtype")
       <=> Args.inputs.dtype \notin {"int32", "int64", "uint32", "uint64"})

C6_Witness ==
  /\ call.layer = "Embed"
  /\ Args.inputs.dtype = "float32"
  /\ result.status = "ValueError:dtype"

\* C7: with bias enabled, for valid batch_dims and contracted axes in any
\* position, DenseGeneral returns the contraction result plus
\* bias[batch indices, feature indices], in the contraction result's shape.
C7_BiasAligned ==
  LET nb == Len(BatchDims)
      nf == Len(Features)
      contraction ==
        DotGeneral(Args.inputs, params["kernel"], Axis,
                   [i \in 1 .. Len(Axis) |-> nb + i - 1], BatchDims,
                   [i \in 1 .. nb |-> i - 1])
      n == Len(contraction.out.shape)
  IN (/\ call.layer = "DenseGeneral"
      /\ Args.bias
      /\ Args.inputs.dtype = "float32"
      /\ LeadingSet(AsTuple(Args.batch_dims))
      /\ Distinct(BatchDims \o Axis)
      /\ SeqSet(BatchDims \o Axis) \subseteq Range(Len(Args.inputs.shape)))
       => /\ contraction.status = "ok"
          /\ result.status = "ok"
          /\ result.out.shape = contraction.out.shape
          /\ \A idx \in Indices(contraction.out.shape) :
               result.out.data[idx]
                 = contraction.out.data[idx]
                     + params["bias"].data[SubSeq(idx, 1, nb) \o SubSeq(idx, n - nf + 1, n)]

\* C8: when a call with non-empty batch_dims of length k passes validation, the
\* batch axes it uses are the axes 0 .. k-1, each once.
C8_LeadingBatchAxes ==
  (/\ call.layer = "DenseGeneral"
   /\ AsTuple(Args.batch_dims) # <<>>
   /\ result.status # "ValueError:batch_dims")
    => /\ Distinct(BatchDims)
       /\ SeqSet(BatchDims) = Range(Len(BatchDims))

DeclaredErrors == {"ValueError:batch_dims", "AssertionError", "ValueError:dtype"}

\* C9: a call rejected with one of the three declared errors leaves the
\* parameter store as it was before the call.
C9_NoPartialFailure == [][result'.status \in DeclaredErrors => params' = params]_vars

C9_Witness ==
  /\ result.status \in DeclaredErrors
  /\ "embedding" \in DOMAIN params

\* The application of the convolution primitive in the result of a Conv call.
ConvOf(r) == IF r.out.op = "add" THEN r.out.x ELSE r.out

IsPermutation(s) == Distinct(s) /\ SeqSet(s) = Range(Len(s))

====
